---- MODULE Spec2Model ----
(***************************************************************************)
(* Model of discord-scraper (src/src/main.rs): the crawl loop of main, the *)
(* rate-limited request sender send_request, the pager                     *)
(* get_channel_messages and the SQLite writers insert_channel,             *)
(* insert_users and insert_messages.                                       *)
(*                                                                         *)
(* Identifiers (Rust Strings holding snowflakes) are naturals, compared in *)
(* the API's ordering. Time is counted in tenths of a second.              *)
(***************************************************************************)
EXTENDS Naturals, Integers, Sequences, FiniteSets, TLC

VARIABLES
    channel_ids,   \* args.channel_ids (main.rs:56)
    remote,        \* channel -> number of messages in its remote history
    edition,       \* edits made to names and contents on the remote side
    store,         \* the SQLite file: tables channel, user, message
    pc,            \* where the process is
    idx,           \* position of the for loop of main in channel_ids
    channel,       \* the Channel returned by get_channel, until it is inserted
    before,        \* the cursor of get_channel_messages
    messages,      \* the page held by get_channel_messages
    req_url,       \* the URL of the request send_request is waiting on
    attempts,      \* requests issued so far by the current send_request call
    last_resp,     \* the last response send_request received in this run
    retry_time,    \* Retry-After of the last 429 answered to this call (tenths)
    slept,         \* time slept between that 429 and the request now waiting
    asleep,        \* send_request is in thread::sleep (main.rs:209)
    err,           \* the error main returned, or the panic that ended it
    nreq,          \* HTTP requests issued by this run
    throttled,     \* 429 responses answered to this run
    cursors,       \* cursors of the get_messages calls of the current channel
    fresh,         \* the run started on an empty store
    completed,     \* the store as the last run that returned Ok(()) left it
    killed         \* the previous run was killed (where restarts note it)

vars == <<channel_ids, remote, edition, store, pc, idx, channel, before,
          messages,
          req_url, attempts, last_resp, retry_time, slept, asleep, err, nreq,
          throttled,
          cursors, fresh,
          completed, killed>>

\* Option<T>: None is the empty tuple, Some(x) the tuple of x.
None == <<>>
Some(x) == <<x>>
Unwrap(o) == o[1]

\* ---- bounds of the model ------------------------------------------------
MaxChannels == 2
MaxPages == 2
MaxThrottle == 2
AuthorSpan == 70

\* ---- program constants --------------------------------------------------
\* limit=100 of the messages URL
PageLimit == 100
\* const RETRY_PAD: f64 = 0.1, in tenths of a second
RETRY_PAD == 1

Min(a, b) == IF a < b THEN a ELSE b

\* ---- the remote API (external collaborator) -----------------------------
ChannelIds == {1, 2}
IdBase == 10 * PageLimit
HalfPage == PageLimit \div 2

\* Histories of 0 .. MaxPages full pages, and of a half page more.
Sizes == {k * PageLimit : k \in 0..MaxPages}
         \cup {k * PageLimit + HalfPage : k \in 0..(MaxPages - 1)}

MaxSize == MaxPages * PageLimit

\* The histories tried: both channels of one size, or of sizes that add up
\* to MaxSize.
Remotes ==
    {[c \in ChannelIds |-> n] : n \in Sizes}
    \cup {[c \in ChannelIds |-> IF c = 1 THEN n ELSE MaxSize - n] : n \in Sizes}

\* The argument lists tried: 1, 2, 1, ... cut at every length.
ArgLists == {[i \in 1..n |-> ((i - 1) % 2) + 1] : n \in 0..MaxChannels}

\* Names and contents can be edited on the remote side; ids cannot.
Edited(original, changed) == IF edition = 0 THEN original ELSE changed

UserOf(a) ==
    [id |-> a, username |-> <<Edited("user", "renamed"), a>>,
     discriminator |-> "0001"]

AuthorOf(c, i) == ((i - 1) \div AuthorSpan) + c

\* The i-th oldest message of channel c.
MessageOf(c, i) ==
    [id |-> c * IdBase + i, channel_id |-> c, author |-> UserOf(AuthorOf(c, i)),
     content |-> Edited("text", "edited"), timestamp |-> i]

\* GET /channels/{id}
ApiChannel(c) ==
    [id |-> c,
     guild_id |-> IF c = 1 THEN None ELSE Some("guild"),
     name |-> IF c = 1 THEN None ELSE Some(Edited("general", "renamed"))]

\* GET /channels/{id}/messages?limit=100[&before=b]: at most `limit` messages
\* older than b, newest first.
ApiMessages(n, c, b, limit) ==
    LET top == IF b = None THEN n
               ELSE Min(n, IF Unwrap(b) > c * IdBase
                           THEN Unwrap(b) - c * IdBase - 1 ELSE 0)
        len == Min(top, limit)
    IN  [k \in 1..len |-> MessageOf(c, top - k + 1)]

\* ---- URLs (format! at main.rs:225-230 and 263) --------------------------
ChannelUrl(c) == <<"channels", c>>

MessagesUrl(c, b) ==
    IF b # None
    THEN <<"channels", c, "messages?limit=", PageLimit, "&before=", Unwrap(b)>>
    ELSE <<"channels", c, "messages?limit=", PageLimit>>

\* ---- the store -----------------------------------------------------------
\* A table is the sequence of its rows in insertion order.
EmptyStore == [channel |-> <<>>, user |-> <<>>, message |-> <<>>]

Keys(t) == {t[i].id : i \in DOMAIN t}

Rows(t) == {t[i] : i \in DOMAIN t}

\* The k-th statement of a batch on a table without PRIMARY KEY: nothing
\* conflicts, every row is appended.
NoConflict(t, rows, k) == FALSE

\* INSERT OR IGNORE INTO t ... on a table with id PRIMARY KEY: the k-th
\* statement of the batch is ignored when its key is in the table already or
\* was inserted by an earlier statement of the batch.
Conflicts(t, rows, k) ==
    \/ rows[k].id \in Keys(t)
    \/ \E j \in 1..(k - 1) : rows[j].id = rows[k].id

\* INSERT OR REPLACE: a row whose key is in the table takes the place of the
\* stored row; the other rows are appended.
ReplaceAll(t, rows) ==
    LET kept == SelectSeq([k \in DOMAIN rows |-> k],
                          LAMBDA k : ~Conflicts(t, rows, k))
        Given(id) == rows[CHOOSE k \in DOMAIN rows : rows[k].id = id]
    IN  [i \in DOMAIN t |-> IF t[i].id \in Keys(rows) THEN Given(t[i].id)
                                                      ELSE t[i]]
        \o [p \in DOMAIN kept |-> rows[kept[p]]]

\* for row in rows { INSERT OR IGNORE ... }: the table after the statements
\* ran in order, the rows that were not ignored appended in that order.
\* (The table, the batch and the statements that are not ignored are bound
\* as values of one-element sets, so that each is computed once.)
InsertAll(t, rows) ==
    LET Kept(tv, rv) == SelectSeq([k \in DOMAIN rv |-> k],
                                  LAMBDA k : ~Conflicts(tv, rv, k))
        Appended(tv, rv, kept) == tv \o [p \in DOMAIN kept |-> rv[kept[p]]]
    IN  CHOOSE out \in UNION {{Appended(tv, rv, kept) :
                                  kept \in {Kept(tv, rv)}} :
                                tv \in {t}, rv \in {rows}} : TRUE

\* No transaction: every statement commits by itself, so the statements that
\* ran before the failure stay.
Autocommit(t, rows, fails, ran) ==
    IF fails THEN InsertAll(t, SubSeq(rows, 1, ran)) ELSE InsertAll(t, rows)

\* A transaction that is never committed: dropped, it rolls back.
Uncommitted(t, rows, fails, ran) == t

\* conn.transaction()? ... tx.commit()?: `ran` statements run, then either the
\* commit succeeds (all of rows are in) or an error leaves the function, the
\* Transaction is dropped and rolls back.
Transaction(t, rows, fails, ran) ==
    IF fails THEN t ELSE InsertAll(t, rows)

ChannelRow(ch) ==
    [id |-> ch.id,
     guild_id |-> IF ch.guild_id = None THEN "" ELSE Unwrap(ch.guild_id),
     name |-> IF ch.name = None THEN "" ELSE Unwrap(ch.name)]

UserRow(u) == [id |-> u.id, username |-> u.username, discriminator |-> u.discriminator]

MessageRow(m) ==
    [id |-> m.id, channel_id |-> m.channel_id, author_id |-> m.author.id,
     content |-> m.content, timestamp |-> m.timestamp]

\* The channel row is never written.
ChannelNotStored(t, ch) == t

insert_channel(t, ch) == InsertAll(t, <<ChannelRow(ch)>>)

insert_users(t, users, fails, ran) ==
    Transaction(t, [k \in DOMAIN users |-> UserRow(users[k])], fails, ran)

insert_messages(t, msgs, fails, ran) ==
    Transaction(t, [k \in DOMAIN msgs |-> MessageRow(msgs[k])], fails, ran)

\* messages.first().map(|m| m.author.clone()): the first author alone.
AuthorOfFirst(msgs) == <<msgs[1].author>>

\* messages.iter().map(|m| m.author.clone()).collect()
AuthorsOf(msgs) == [k \in DOMAIN msgs |-> msgs[k].author]

\* ---- the request sender (send_request) ----------------------------------
\* What the server may answer to one GET: the connection fails, or a status
\* comes back with a Retry-After header and a body that is JSON of the
\* expected shape or not.
\* A Retry-After header is absent or present; present, its bytes are visible
\* ASCII or not (to_str); as a str it is, for parse::<f64>, the empty string,
\* not a float literal, or a float: a number of tenths of a second
\* ("number"), a float larger than a Duration holds, +inf included ("huge",
\* e.g. 1e20), or NaN ("nan").
RetryAfters == {0 - 20, 25}

Header(present, ascii, float, value) ==
    [present |-> present, ascii |-> ascii, float |-> float, value |-> value]

NoHeader == Header(FALSE, FALSE, "empty", 0)

Headers ==
    {NoHeader, Header(TRUE, FALSE, "empty", 0)}
    \cup {Header(TRUE, TRUE, f, 0) : f \in {"empty", "invalid", "huge", "nan"}}
    \cup {Header(TRUE, TRUE, "number", d) : d \in RetryAfters}

Responses ==
    {[sent |-> FALSE, status |-> "NONE", retry_after |-> NoHeader, json |-> FALSE]}
    \cup {[sent |-> TRUE, status |-> "TOO_MANY_REQUESTS", retry_after |-> h,
           json |-> FALSE] : h \in Headers}
    \cup {[sent |-> TRUE, status |-> st, retry_after |-> NoHeader, json |-> j] :
            st \in {"OK", "NO_CONTENT", "NOT_FOUND"}, j \in BOOLEAN}

\* The DiscordError {message, code} an error body decodes to.
ApiError == [message |-> "Unknown Channel", code |-> 10003]

Failure(kind, text) == [kind |-> kind, text |-> text]

\* format!("While executing request {}", err.message): the URL left out.
ErrMsgNoUrl(url, e) == <<"While executing request ", ": ", e.message>>

\* format!("While executing request {}: {}", req_url, err.message)
ErrMsg(url, e) == <<"While executing request ", url, ": ", e.message>>

\* The sleep with the pad forgotten.
SleepNoPad(rt) == rt

\* Duration::from_secs_f64(retry_time + RETRY_PAD)
SleepDuration(rt) == rt + RETRY_PAD

\* A retry sent to the bare channel URL instead of the URL asked for.
RetryChannelUrl(url) == SubSeq(url, 1, 2)

\* return send_request(client, req_url)
RetryUrl(url) == url

\* One pass through the body of send_request on response r: the call returns
\* the response ("ok"), sleeps and calls itself ("retry"), returns Err ("err")
\* or panics ("panic").
Outcome(tag, e, rt) == [tag |-> tag, err |-> e, retry_time |-> rt]

NoFailure == Failure("none", <<>>)

\* Duration::from_secs_f64(retry_time + RETRY_PAD), main.rs:209: the sum of a
\* huge float or of NaN and the pad is huge or NaN and panics, as does a
\* negative sum.
from_secs_f64(float, sum) ==
    IF float # "number" THEN "value is either too big or NaN"
    ELSE IF sum < 0 THEN "value is negative"
    ELSE "ok"

\* A 429 treated like any other error status.
send_request_noretry(url, r) ==
    IF ~r.sent THEN Outcome("err", Failure("transport", <<>>), 0)
    ELSE IF r.status = "OK" THEN Outcome("ok", NoFailure, 0)
    ELSE IF ~r.json THEN Outcome("err", Failure("decode", <<>>), 0)
    ELSE Outcome("err", Failure("api", ErrMsg(url, ApiError)), 0)

send_request(url, r) ==
    IF ~r.sent THEN Outcome("err", Failure("transport", <<>>), 0)
    ELSE IF r.status = "OK" THEN Outcome("ok", NoFailure, 0)
    ELSE IF r.status = "TOO_MANY_REQUESTS" THEN
        IF ~r.retry_after.present
        THEN Outcome("panic", Failure("panic", <<"unwrap on None">>), 0)
        ELSE IF ~r.retry_after.ascii
        THEN Outcome("err",
                     Failure("header", <<"failed to convert header to a str">>),
                     0)
        ELSE IF r.retry_after.float = "empty"
        THEN Outcome("err",
                     Failure("parse", <<"cannot parse float from empty string">>),
                     0)
        ELSE IF r.retry_after.float = "invalid"
        THEN Outcome("err", Failure("parse", <<"invalid float literal">>), 0)
        ELSE IF from_secs_f64(r.retry_after.float,
                              SleepDuration(r.retry_after.value)) # "ok"
        THEN Outcome("panic",
                     Failure("panic",
                             <<"cannot convert float seconds to Duration: ",
                               from_secs_f64(
                                   r.retry_after.float,
                                   SleepDuration(r.retry_after.value))>>),
                     0)
        ELSE Outcome("retry", NoFailure, r.retry_after.value)
    ELSE IF ~r.json THEN Outcome("err", Failure("decode", <<>>), 0)
    ELSE Outcome("err", Failure("api", ErrMsg(url, ApiError)), 0)

\* get_channel / get_messages on response r: send_request(..)?, then the body
\* is read and decoded (serde_json::from_str(&body)?).
Fetch(url, r) ==
    LET out == send_request(url, r)
    IN  IF out.tag = "ok" /\ ~r.json
        THEN Outcome("err", Failure("decode", <<>>), 0)
        ELSE out

\* The server's answer to a successful GET of url, decoded.
UrlChannel(url) == url[2]

UrlBefore(url) == IF Len(url) = 6 THEN Some(url[6]) ELSE None

\* ---- main and get_channel_messages --------------------------------------
\* while messages.len() == 100: the loop left at the first page that is not full.
LoopWhileFull(msgs) == Len(msgs) = PageLimit

\* while !messages.is_empty()
LoopContinues(msgs) == msgs # <<>>

\* messages.last().unwrap().id.clone()
LastId(msgs) == msgs[Len(msgs)].id

\* The cursor left as it was.
KeepBefore(b, msgs) == b

\* A crawl that resumes below the oldest message stored for the channel.
ResumeBefore(t, c) ==
    IF \E k \in DOMAIN t : t[k].channel_id = c
    THEN Some(CHOOSE i \in {t[k].id : k \in {j \in DOMAIN t : t[j].channel_id = c}} :
                \A k \in DOMAIN t : t[k].channel_id = c => i <= t[k].id)
    ELSE None

\* let mut before = None (main.rs:246): the cursor get_channel_messages starts
\* with for channel c, the message table being t.
InitialBefore(t, c) == None

\* The cursor is the id of the first, newest message of the page.
FirstBefore(b, msgs) == Some(msgs[1].id)

\* before = Some(messages.last().unwrap().id.clone())
NextBefore(b, msgs) == Some(LastId(msgs))

Fetching == {"get_channel", "get_messages"}
Terminal == {"done", "failed", "panicked", "crashed"}

\* An error handler that gives up the channel and goes on with the next.
SkipChannel(i) == [pc |-> "main", idx |-> i + 1]

\* The ? operators of get_channel_messages and main: the error leaves main.
Raise(i) == [pc |-> "failed", idx |-> i]

\* The places of a transaction at which a statement or the commit may fail,
\* as the number of statements that ran before.
FailPoints(rows) == {0, 1, Len(rows)} \cap (0..Len(rows))

Fail(e) ==
    /\ err' = Some(e)
    /\ pc' = IF e.kind = "panic" THEN "panicked" ELSE Raise(idx).pc
    /\ idx' = IF e.kind = "panic" THEN idx ELSE Raise(idx).idx

\* client.get(req_url).send() of a fresh send_request call
Issue(url) ==
    /\ req_url' = url
    /\ attempts' = 1
    /\ nreq' = nreq + 1
    /\ retry_time' = None
    /\ slept' = 0
    /\ asleep' = FALSE

Returned ==
    /\ req_url' = None
    /\ attempts' = 0
    /\ retry_time' = None
    /\ slept' = 0
    /\ asleep' = FALSE

Init ==
    /\ channel_ids \in ArgLists
    /\ remote \in Remotes
    /\ edition = 0
    /\ store = EmptyStore
    /\ pc = "main"
    /\ idx = 1
    /\ channel = None
    /\ before = None
    /\ messages = <<>>
    /\ req_url = None
    /\ attempts = 0
    /\ last_resp = None
    /\ retry_time = None
    /\ slept = 0
    /\ asleep = FALSE
    /\ err = None
    /\ nreq = 0
    /\ throttled = 0
    /\ cursors = <<>>
    /\ fresh = TRUE
    /\ completed = None
    /\ killed = FALSE

\* main.rs:39-40: the next channel of the for loop; get_channel sends its GET.
StartChannel ==
    /\ pc = "main"
    /\ idx <= Len(channel_ids)
    /\ pc' = "get_channel"
    /\ Issue(ChannelUrl(channel_ids[idx]))
    /\ cursors' = <<>>
    /\ UNCHANGED <<channel_ids, remote, edition, killed,
                   store, idx, channel, before, messages,
                   last_resp, err, throttled, fresh, completed>>

\* main.rs:46: the for loop is over, Ok(()).
Finish ==
    /\ pc = "main"
    /\ idx > Len(channel_ids)
    /\ pc' = "done"
    /\ UNCHANGED <<channel_ids, remote, edition, killed,
                   store, idx, channel, before, messages,
                   req_url, attempts, last_resp, retry_time, slept, asleep, err, nreq,
                   throttled, cursors, fresh, completed>>

\* main.rs:199-209: a 429 with a usable Retry-After is answered; the header is
\* read and the process goes to sleep.
Throttled ==
    /\ pc \in Fetching
    /\ ~asleep
    /\ throttled < MaxThrottle
    /\ \E r \in Responses :
         LET out == Fetch(req_url, r)
         IN  /\ out.tag = "retry"
             /\ last_resp' = Some(r)
             /\ retry_time' = Some(out.retry_time)
    /\ slept' = 0
    /\ asleep' = TRUE
    /\ throttled' = throttled + 1
    /\ UNCHANGED <<channel_ids, remote, edition, killed,
                   store, pc, idx, channel, before, req_url, attempts, nreq,
                   messages, err, cursors, fresh, completed>>

\* main.rs:209-211: the sleep of retry_time + RETRY_PAD is over; send_request
\* calls itself and sends the same GET.
Retry ==
    /\ pc \in Fetching
    /\ asleep
    /\ slept' = SleepDuration(Unwrap(retry_time))
    /\ asleep' = FALSE
    /\ req_url' = RetryUrl(req_url)
    /\ attempts' = attempts + 1
    /\ nreq' = nreq + 1
    /\ UNCHANGED <<channel_ids, remote, edition, killed,
                   store, pc, idx, channel, before, last_resp, retry_time,
                   throttled, messages, err, cursors, fresh, completed>>

\* Any failing path of get_channel or get_messages: send() fails, a 429 whose
\* header is unusable, an error status, or a body that does not decode.
FetchFailed ==
    /\ pc \in Fetching
    /\ ~asleep
    /\ \E r \in Responses :
         LET out == Fetch(req_url, r)
         IN  /\ out.tag \in {"err", "panic"}
             /\ last_resp' = Some(r)
             /\ Fail(out.err)
    /\ UNCHANGED <<channel_ids, remote, edition, killed,
                   store, channel, before, messages,
                   req_url, attempts, retry_time, slept, asleep, nreq, throttled,
                   cursors, fresh, completed>>

\* main.rs:262-270: get_channel returns the decoded Channel.
GetChannelOk ==
    /\ pc = "get_channel"
    /\ ~asleep
    /\ \E r \in Responses :
         /\ Fetch(req_url, r).tag = "ok"
         /\ last_resp' = Some(r)
    /\ channel' = Some(ApiChannel(UrlChannel(req_url)))
    /\ pc' = "insert_channel"
    /\ Returned
    /\ UNCHANGED <<channel_ids, remote, edition, killed,
                   store, idx, before, messages, err,
                   nreq, throttled, cursors, fresh, completed>>

\* main.rs:41: insert_channel commits the channel row and returns.
InsertChannel ==
    /\ pc = "insert_channel"
    /\ \E fails \in BOOLEAN :
         IF fails
         THEN /\ Fail(Failure("store", <<"insert_channel">>))
              /\ UNCHANGED <<store, channel>>
         ELSE /\ store' = [store EXCEPT
                             !.channel = insert_channel(@, Unwrap(channel))]
              /\ channel' = None
              /\ pc' = "first_page"
              /\ UNCHANGED <<idx, err>>
    /\ UNCHANGED <<channel_ids, remote, edition, killed, before, req_url,
                   attempts, retry_time, slept, asleep, nreq, cursors,
                   messages, last_resp, throttled, fresh,
                   completed>>

\* main.rs:43 and 246-247: get_channel_messages starts with before = None and
\* get_messages sends the first page's GET.
FirstPage ==
    /\ pc = "first_page"
    /\ before' = InitialBefore(store.message, channel_ids[idx])
    /\ Issue(MessagesUrl(channel_ids[idx], before'))
    /\ cursors' = <<before'>>
    /\ pc' = "get_messages"
    /\ UNCHANGED <<channel_ids, remote, edition, killed, store, idx, channel,
                   messages, last_resp, err, throttled, fresh, completed>>

\* main.rs:247/256 and 249: get_messages returns a page that is not empty.
PageReturned ==
    /\ pc = "get_messages"
    /\ ~asleep
    /\ \E r \in Responses :
         /\ Fetch(req_url, r).tag = "ok"
         /\ last_resp' = Some(r)
    /\ LET page == ApiMessages(remote[UrlChannel(req_url)], UrlChannel(req_url),
                               UrlBefore(req_url), PageLimit)
       IN  /\ LoopContinues(page)
           /\ messages' = page
    /\ pc' = "insert_users"
    /\ Returned
    /\ UNCHANGED <<channel_ids, remote, edition, killed,
                   store, idx, channel, before, err,
                   nreq, throttled, cursors, fresh, completed>>

\* main.rs:249 and 259: the page is empty, get_channel_messages returns
\* Ok(()) and the for loop of main goes on.
HistoryExhausted ==
    /\ pc = "get_messages"
    /\ ~asleep
    /\ \E r \in Responses :
         /\ Fetch(req_url, r).tag = "ok"
         /\ last_resp' = Some(r)
    /\ LET page == ApiMessages(remote[UrlChannel(req_url)], UrlChannel(req_url),
                               UrlBefore(req_url), PageLimit)
       IN  /\ ~LoopContinues(page)
           /\ messages' = page
    /\ pc' = "main"
    /\ idx' = idx + 1
    /\ Returned
    /\ UNCHANGED <<channel_ids, remote, edition, killed,
                   store, channel, before, err, nreq,
                   throttled, cursors, fresh, completed>>

\* main.rs:250-251: the authors of the page go in, in one transaction.
InsertUsers ==
    /\ pc = "insert_users"
    /\ LET users == AuthorsOf(messages)
       IN  \E fails \in BOOLEAN :
             \E ran \in (IF fails THEN FailPoints(users) ELSE {Len(users)}) :
               /\ store' = [store EXCEPT
                              !.user = insert_users(@, users, fails, ran)]
               /\ IF fails
                  THEN Fail(Failure("store", <<"insert_users">>))
                  ELSE /\ pc' = "insert_messages"
                       /\ UNCHANGED <<idx, err>>
    /\ UNCHANGED <<channel_ids, remote, edition, killed,
                   channel, before, messages, req_url,
                   attempts, last_resp, retry_time, slept, asleep, nreq, throttled,
                   cursors, fresh, completed>>

\* main.rs:253-254: the cursor moves to the oldest message of the page and
\* the messages go in in one transaction, which commits.
InsertMessages ==
    /\ pc = "insert_messages"
    /\ before' = NextBefore(before, messages)
    /\ \E fails \in BOOLEAN :
         \E ran \in (IF fails THEN FailPoints(messages) ELSE {Len(messages)}) :
           /\ store' = [store EXCEPT
                          !.message = insert_messages(@, messages, fails, ran)]
           /\ IF fails
              THEN Fail(Failure("store", <<"insert_messages">>))
              ELSE /\ pc' = "next_page"
                   /\ UNCHANGED <<idx, err>>
    /\ UNCHANGED <<channel_ids, remote, edition, killed, messages, req_url,
                   attempts, retry_time, slept, asleep, nreq, cursors,
                   channel, last_resp, throttled, fresh,
                   completed>>

\* main.rs:256: get_messages sends the GET of the next page, with the cursor.
NextPage ==
    /\ pc = "next_page"
    /\ messages' = <<>>
    /\ Issue(MessagesUrl(channel_ids[idx], before))
    /\ cursors' = Append(cursors, before)
    /\ pc' = "get_messages"
    /\ UNCHANGED <<channel_ids, remote, edition, killed, store, idx, channel,
                   before, last_resp, err, throttled, fresh, completed>>

\* A new process: its memory is empty, the store file is what it is.
Boot ==
    /\ pc' = "main"
    /\ idx' = 1
    /\ channel' = None
    /\ before' = None
    /\ messages' = <<>>
    /\ Returned
    /\ last_resp' = None
    /\ err' = None
    /\ nreq' = 0
    /\ throttled' = 0
    /\ cursors' = <<>>

\* The process is killed. A transaction in progress is rolled back by the
\* database, so the store is as the last commit left it.
Crash ==
    /\ pc \notin Terminal
    /\ pc' = "crashed"
    /\ UNCHANGED <<channel_ids, remote, edition, killed,
                   store, idx, channel, before, messages,
                   req_url, attempts, last_resp, retry_time, slept, asleep, err, nreq,
                   throttled, cursors, fresh, completed>>

\* The command is run again with the same arguments on the same store file.
Rerun(noted) ==
    /\ pc \in Terminal
    /\ Boot
    /\ fresh' = (store = EmptyStore)
    /\ completed' = IF pc = "done" THEN Some(store) ELSE completed
    /\ killed' = noted
    /\ UNCHANGED <<channel_ids, remote, edition, store>>

Restart == Rerun(FALSE)

\* The same, with a note of whether the run before was killed.
RestartNoting == Rerun(pc = "crashed")

\* Between two runs names and contents are edited on the remote side: users
\* are renamed, messages edited, channels renamed.
EditRemote ==
    /\ pc \in Terminal
    /\ edition = 0
    /\ edition' = edition + 1
    /\ UNCHANGED <<channel_ids, remote, store, pc, idx, channel, before,
                   messages, req_url, attempts, last_resp, retry_time, slept, asleep,
                   err, nreq, throttled, cursors, fresh, completed, killed>>

Next ==
    \/ StartChannel
    \/ Finish
    \/ Throttled
    \/ Retry
    \/ FetchFailed
    \/ GetChannelOk
    \/ InsertChannel
    \/ FirstPage
    \/ PageReturned
    \/ HistoryExhausted
    \/ InsertUsers
    \/ InsertMessages
    \/ NextPage
    \/ Crash
    \/ Restart

Spec == Init /\ [][Next]_vars

\* The steps of the process. Each is a blocking call that returns: the client
\* answers or times out, the sleep is finite, the database call returns.
RunStep ==
    \/ StartChannel
    \/ Finish
    \/ Throttled
    \/ Retry
    \/ FetchFailed
    \/ GetChannelOk
    \/ InsertChannel
    \/ FirstPage
    \/ PageReturned
    \/ HistoryExhausted
    \/ InsertUsers
    \/ InsertMessages
    \/ NextPage

\* The runs of Spec, each knowing whether the run before it was killed.
NextKills == RunStep \/ Crash \/ RestartNoting

SpecKills == Init /\ [][NextKills]_vars

\* One run that nothing kills: a process that can take a step takes one.
SpecLive == Init /\ [][RunStep]_vars /\ WF_vars(RunStep)

\* Runs that end by themselves, with a remote side whose data changes between
\* two of them.
NextEdits ==
    \/ StartChannel
    \/ Finish
    \/ Throttled
    \/ Retry
    \/ FetchFailed
    \/ GetChannelOk
    \/ InsertChannel
    \/ FirstPage
    \/ PageReturned
    \/ HistoryExhausted
    \/ InsertUsers
    \/ InsertMessages
    \/ NextPage
    \/ Restart
    \/ EditRemote

\* Every channel has a full page and a half page of history.
InitEdits == Init /\ remote = [c \in ChannelIds |-> PageLimit + HalfPage]

SpecEdits == InitEdits /\ [][NextEdits]_vars

\* ---- properties ----------------------------------------------------------
Range(f) == {f[i] : i \in DOMAIN f}

Ceil(n, d) == (n + d - 1) \div d

\* The history of channel c, as rows.
RemoteMessages(c) == {MessageRow(MessageOf(c, i)) : i \in 1..remote[c]}

RemoteUsers(c) == {UserRow(UserOf(AuthorOf(c, i))) : i \in 1..remote[c]}

\* The crawl of a channel has just ended on an empty page; cursors are that
\* channel's.
CrawlDone == pc \in {"main", "done"} /\ idx > 1

FinishedChannel == channel_ids[idx - 1]

\* The cursor of the k-th page fetch of a channel of n messages.
ExpectedCursor(c, n, k) ==
    IF k = 1 THEN None
    ELSE Some(c * IdBase + (IF n - (k - 1) * PageLimit + 1 > 1
                            THEN n - (k - 1) * PageLimit + 1 ELSE 1))

\* C1: a run that starts on an empty store and returns Ok(()) leaves exactly
\* the messages of the requested channels' histories, one channel row per
\* requested channel and one user row per distinct author, no row twice; and
\* the page fetches of a channel of 150 messages carried no cursor, then the
\* id of its 51st message, then the id of its 1st.
C1_Completeness ==
    /\ (pc = "done" /\ fresh) =>
         /\ Rows(store.message) = UNION {RemoteMessages(c) : c \in Range(channel_ids)}
         /\ Len(store.message) = Cardinality(Rows(store.message))
         /\ Rows(store.channel) = {ChannelRow(ApiChannel(c)) : c \in Range(channel_ids)}
         /\ Len(store.channel) = Cardinality(Range(channel_ids))
         /\ Rows(store.user) = UNION {RemoteUsers(c) : c \in Range(channel_ids)}
         /\ Len(store.user) = Cardinality(Keys(store.user))
    /\ (CrawlDone /\ remote[FinishedChannel] = PageLimit + HalfPage) =>
         cursors = [k \in 1..3 |-> ExpectedCursor(FinishedChannel,
                                                  PageLimit + HalfPage, k)]

C1_Witness ==
    /\ pc = "done"
    /\ fresh
    /\ channel_ids = <<1, 2>>
    /\ remote[2] = PageLimit + HalfPage
    /\ Len(store.message) = remote[1] + remote[2]
    /\ cursors = <<None, Some(2 * IdBase + 51), Some(2 * IdBase + 1)>>

\* C2: a run that returns Ok(()) on the store an earlier run that returned
\* Ok(()) left, leaves that store as it was: the same rows and no row twice.
C2_Idempotent ==
    (pc = "done" /\ completed # None) => store = Unwrap(completed)

C2_Witness ==
    /\ pc = "done"
    /\ completed # None
    /\ nreq > 0
    /\ channel_ids = <<1, 2>>
    /\ Len(store.message) >= PageLimit + HalfPage
    /\ Len(store.message) = Cardinality(Keys(store.message))

\* C3: the page fetches of one crawl of a channel carry pairwise different
\* cursors; for a channel of k * 100 messages there are never more than
\* k + 1 of them, and exactly k + 1 when the crawl ends, the last page empty.
C3_Pagination ==
    /\ \A i, j \in DOMAIN cursors : i # j => cursors[i] # cursors[j]
    /\ \A c \in ChannelIds :
         (/\ remote[c] % PageLimit = 0
          /\ pc \in {"get_messages", "insert_users", "insert_messages",
                    "next_page"}
          /\ channel_ids[idx] = c)
         => Len(cursors) <= remote[c] \div PageLimit + 1
    /\ (CrawlDone /\ remote[FinishedChannel] % PageLimit = 0) =>
         /\ Len(cursors) = remote[FinishedChannel] \div PageLimit + 1
         /\ messages = <<>>

C3_Witness ==
    /\ CrawlDone
    /\ remote[FinishedChannel] = 2 * PageLimit
    /\ Len(cursors) = 3

\* C4 as claimed: a channel of N messages is crawled in ceil(N/100) page
\* fetches.
C4_CeilFetches ==
    CrawlDone => Len(cursors) = Ceil(remote[FinishedChannel], PageLimit)

\* C4 amended: a channel of N messages is crawled in ceil(N/100) + 1 page
\* fetches, ceil(N/100) pages that are not empty and the empty page that ends
\* the loop.
C4_FetchCount ==
    CrawlDone => Len(cursors) = Ceil(remote[FinishedChannel], PageLimit) + 1

C4_Witness ==
    /\ CrawlDone
    /\ remote[FinishedChannel] = PageLimit + HalfPage
    /\ Len(cursors) = 3

StoreFailedIn(site) ==
    /\ pc = "failed"
    /\ err # None
    /\ Unwrap(err).kind = "store"
    /\ Unwrap(err).text = <<site>>

\* C5 as claimed: after insert_users or insert_messages failed on a page, no
\* row of the page's message batch and no row of its user batch is in the
\* store.
C5_NoRowOfPage ==
    (StoreFailedIn("insert_users") \/ StoreFailedIn("insert_messages")) =>
        \A k \in DOMAIN messages :
            /\ MessageRow(messages[k]) \notin Rows(store.message)
            /\ UserRow(messages[k].author) \notin Rows(store.user)

\* C5 amended: a failing insert_users or insert_messages leaves the store
\* exactly as it was when it was called; after a failing insert_messages the
\* users of the page, committed by insert_users before, are all in the store.
C5_CallAtomic ==
    [][/\ (pc = "insert_users" /\ pc' = "failed") => store' = store
       /\ (pc = "insert_messages" /\ pc' = "failed") =>
            /\ store' = store
            /\ \A k \in DOMAIN messages :
                 UserRow(messages[k].author) \in Rows(store'.user)]_vars

C5_Witness ==
    /\ StoreFailedIn("insert_messages")
    /\ fresh
    /\ store.message = <<>>
    /\ Len(store.user) > 1
    /\ Len(messages) = PageLimit

LastStatus == IF last_resp = None THEN "NONE" ELSE Unwrap(last_resp).status

\* C6 as claimed: a 429 never makes the call fail or the process abort: while
\* the last response is a 429, the call sleeps before it sends the request
\* again, or has sent it again and waits.
C6_ThrottleAbsorbed ==
    LastStatus = "TOO_MANY_REQUESTS" =>
        /\ err = None
        /\ pc \in Fetching \cup {"crashed"}
        /\ asleep \/ attempts >= 2

\* C7: a call answered 429 with Retry-After d goes to sleep without sending
\* anything; a sleeping call does nothing but wake, and when it wakes it has
\* slept at least d + 0.1 s and sends one request, to the URL of the request
\* that was throttled, inside the same call.
C7_Backoff ==
    [][/\ throttled' = throttled + 1 =>
            /\ LastStatus' = "TOO_MANY_REQUESTS"
            /\ retry_time' = Some(Unwrap(last_resp').retry_after.value)
            /\ asleep'
            /\ req_url' = req_url
            /\ nreq' = nreq
            /\ attempts' = attempts
            /\ pc' = pc
       /\ (asleep /\ pc \in Fetching /\ pc' # "crashed") =>
            /\ ~asleep'
            /\ LastStatus = "TOO_MANY_REQUESTS"
            /\ retry_time = Some(Unwrap(last_resp).retry_after.value)
            /\ slept' >= Unwrap(retry_time) + 1
            /\ req_url' = req_url
            /\ nreq' = nreq + 1
            /\ attempts' = attempts + 1
            /\ last_resp' = last_resp
            /\ pc' = pc
       /\ (nreq' = nreq + 1 /\ pc \in Fetching) => asleep]_vars

C7_Witness ==
    /\ pc = "get_messages"
    /\ LastStatus = "TOO_MANY_REQUESTS"
    /\ Unwrap(last_resp).retry_after.value = 25
    /\ slept = 26
    /\ attempts = 2
    /\ Len(req_url) = 6

\* The statuses that are neither success nor 429.
ErrorStatuses == {"NOT_FOUND"}

\* C8 as claimed: every response with an error status ends the call, without
\* another request, in an error that embeds the URL and the payload's message.
C8_ErrorEmbedsUrl ==
    LastStatus \in ErrorStatuses =>
        /\ pc = "failed"
        /\ err # None
        /\ Unwrap(err).kind = "api"
        /\ Unwrap(err).text = <<"While executing request ", req_url, ": ",
                                ApiError.message>>

\* C8 amended: a response with an error status ends the call without another
\* request; the error embeds the URL and the payload's message when the body
\* decodes as {message, code}, and is the decode error otherwise.
C8_ErrorNotRetried ==
    [][(LastStatus' \in ErrorStatuses /\ last_resp' # last_resp) =>
         /\ pc \in Fetching
         /\ pc' = "failed"
         /\ nreq' = nreq
         /\ req_url' = req_url
         /\ err' # None
         /\ IF Unwrap(last_resp').json
            THEN /\ Unwrap(err').kind = "api"
                 /\ Unwrap(err').text = <<"While executing request ", req_url,
                                          ": ", ApiError.message>>
            ELSE Unwrap(err').kind = "decode"]_vars

C8_Witness ==
    /\ LastStatus \in ErrorStatuses
    /\ Unwrap(last_resp).json
    /\ pc = "failed"
    /\ Unwrap(err).kind = "api"
    /\ Unwrap(err).text[2] = MessagesUrl(2, Some(2 * IdBase + 51))

Aborted == {"failed", "panicked"}

\* C9: once an error has occurred the process is over: it is in FAILED (or
\* has panicked), and as long as that run lasts no request is issued, no row
\* is written and no other channel is started.
C9_AbortOnFirstFailure ==
    /\ [](err # None => pc \in Aborted)
    /\ [][(err # None /\ err' # None) =>
            /\ pc' = pc
            /\ nreq' = nreq
            /\ store' = store
            /\ idx' = idx]_vars

C9_Witness ==
    /\ pc = "failed"
    /\ err # None
    /\ Unwrap(err).kind = "store"
    /\ channel_ids = <<1, 2>>
    /\ idx = 1
    /\ Len(store.message) = PageLimit
    /\ remote[1] > PageLimit
    /\ remote[2] > 0

\* C10: every message row's author_id is the id of a user row of the store.
C10_AuthorReferential ==
    \A k \in DOMAIN store.message :
        store.message[k].author_id \in Keys(store.user)

C10_Witness ==
    /\ pc = "insert_messages"
    /\ store.message # <<>>
    /\ \E k \in DOMAIN messages :
         messages[k].author.id \notin {store.message[j].author_id :
                                         j \in DOMAIN store.message}

\* C11: every message row's channel_id is the id of a channel row, and that
\* channel row was in the store before the message row was written: the
\* crawl holds the channel's row from the return of insert_channel on, and
\* the row is in the store when a page of the channel is requested.
C11_ChannelReferential ==
    /\ [](\A k \in DOMAIN store.message :
            store.message[k].channel_id \in Keys(store.channel))
    /\ [](pc \in {"first_page", "get_messages", "insert_users",
                  "insert_messages", "next_page"} =>
            channel_ids[idx] \in Keys(store.channel))
    /\ [][(pc \in {"first_page", "next_page"} /\ nreq' = nreq + 1) =>
            /\ channel_ids[idx] \in Keys(store.channel)
            /\ UrlChannel(req_url') = channel_ids[idx]
            /\ store' = store]_vars
    /\ [][\A k \in DOMAIN store'.message :
            k > Len(store.message) =>
                store'.message[k].channel_id \in Keys(store.channel)]_vars

C11_Witness ==
    /\ pc = "get_messages"
    /\ channel_ids = <<1, 2>>
    /\ idx = 2
    /\ Len(cursors) = 2
    /\ \E k \in DOMAIN store.message : store.message[k].channel_id = 2
    /\ \E k \in DOMAIN store.message : store.message[k].channel_id = 1

Tables == {"channel", "user", "message"}

\* C12: no step deletes or changes a row of the store: every table keeps its
\* rows, with their values, and only grows at its end, also when a run
\* inserts rows whose keys are stored with other values; no key is stored
\* twice.
C12_AppendOnly ==
    /\ [](\A T \in Tables : Cardinality(Keys(store[T])) = Len(store[T]))
    /\ [][\A T \in Tables :
            /\ Len(store[T]) <= Len(store'[T])
            /\ SubSeq(store'[T], 1, Len(store[T])) = store[T]]_vars

\* A run has inserted the first page again, edited on the remote side since
\* it was stored, and goes on: the stored rows have the first values.
C12_Witness ==
    /\ pc = "get_messages"
    /\ edition = 1
    /\ channel_ids = <<1, 2>>
    /\ idx = 2
    /\ Len(cursors) = 2
    /\ Len(store.message) > PageLimit
    /\ \A k \in DOMAIN store.message : store.message[k].content = "text"
    /\ \A k \in DOMAIN store.user : store.user[k].username[1] = "user"
    /\ \A k \in DOMAIN store.channel : store.channel[k].name # "renamed"

\* The elements of s, each at its first occurrence.
FirstOccurrences(s) ==
    LET kept == SelectSeq([i \in DOMAIN s |-> i],
                          LAMBDA i : \A j \in 1..(i - 1) : s[j] # s[i])
    IN  [p \in DOMAIN kept |-> s[kept[p]]]

\* The history of channel c, newest first.
History(c) == [k \in 1..remote[c] |-> MessageOf(c, remote[c] - k + 1)]

\* The histories of the channels cs, one after the other.
RECURSIVE Histories(_)
Histories(cs) ==
    IF cs = <<>> THEN <<>> ELSE History(Head(cs)) \o Histories(Tail(cs))

\* The store one run leaves that starts on an empty store and is not
\* interrupted: a channel row per requested channel, the histories newest
\* first in the order of the arguments, and the authors in the order in which
\* the histories meet them.
UninterruptedStore ==
    LET all == Histories(FirstOccurrences(channel_ids))
        turns == SelectSeq([k \in DOMAIN all |-> k],
                           LAMBDA k : \/ k = 1
                                      \/ all[k].author.id # all[k - 1].author.id)
        authors == [p \in DOMAIN turns |-> all[turns[p]].author.id]
        first == FirstOccurrences(authors)
    IN  [channel |-> [i \in DOMAIN FirstOccurrences(channel_ids) |->
                        ChannelRow(ApiChannel(FirstOccurrences(channel_ids)[i]))],
         user |-> [p \in DOMAIN first |-> UserRow(UserOf(first[p]))],
         message |-> [k \in DOMAIN all |-> MessageRow(all[k])]]

\* C13: a run that returns Ok(()) leaves the store of one uninterrupted run,
\* whatever the runs before it wrote before they were killed or failed.
C13_RerunSafe ==
    pc = "done" => (err = None /\ store = UninterruptedStore)

\* The previous run was killed after it had written rows, no run before
\* returned Ok(()), and this run has returned Ok(()).
C13_Witness ==
    /\ pc = "done"
    /\ killed
    /\ ~fresh
    /\ completed = None
    /\ channel_ids = <<1, 2>>
    /\ remote[1] = PageLimit + HalfPage
    /\ remote[2] = HalfPage
    /\ Len(store.message) = 2 * PageLimit

\* The oldest id of a page: ids grow with time.
OldestId(msgs) ==
    CHOOSE i \in {msgs[k].id : k \in DOMAIN msgs} :
        \A k \in DOMAIN msgs : i <= msgs[k].id

HoldsPage == pc \in {"insert_users", "insert_messages"}

\* C14: when a page has been persisted the cursor is the oldest id of that
\* page, the request sent next carries it, and every id of the page fetched
\* with a cursor is older than the cursor: the ids of page n+1 are all older
\* than the oldest id of page n.
C14_CursorMonotone ==
    /\ [][(pc = "insert_messages" /\ pc' = "next_page") =>
            /\ before' = Some(OldestId(messages))
            /\ messages' = messages]_vars
    /\ [][(pc = "next_page" /\ pc' = "get_messages") =>
            /\ before' = before
            /\ before = Some(OldestId(messages))
            /\ UrlBefore(req_url') = before]_vars
    /\ [][(pc = "get_messages" /\ HoldsPage') =>
            /\ before' = before
            /\ before = UrlBefore(req_url)]_vars
    /\ []((HoldsPage /\ before # None) =>
            \A k \in DOMAIN messages : messages[k].id < Unwrap(before))

C14_Witness ==
    /\ pc = "insert_users"
    /\ Len(cursors) = 2
    /\ Len(messages) = HalfPage
    /\ before = Some(2 * IdBase + HalfPage + 1)
    /\ messages[1].id = 2 * IdBase + HalfPage

\* The steps of one channel's crawl: from, to.
CrawlOrder ==
    {<<"main", "get_channel">>,
     <<"get_channel", "get_channel">>,
     <<"get_channel", "insert_channel">>,
     <<"insert_channel", "first_page">>,
     <<"first_page", "get_messages">>,
     <<"get_messages", "get_messages">>,
     <<"get_messages", "insert_users">>,
     <<"insert_users", "insert_messages">>,
     <<"insert_messages", "next_page">>,
     <<"next_page", "get_messages">>,
     <<"get_messages", "main">>,
     <<"main", "done">>}

\* C15: a run that goes on moves only along fetch channel, persist channel,
\* page fetch, persist users, persist messages, page fetch, ...; persisting
\* and sending the request that follows are two steps, and the first sends
\* nothing; the page is persisted only when it is not empty, it is in the
\* store, authors and messages, before the step that requests the next page,
\* which writes nothing, and the channel is done only by a page fetch that
\* returned an empty page.
C15_ChannelStateMachine ==
    [][(pc' \notin Aborted \cup {"crashed"} /\ pc \notin Terminal) =>
         /\ <<pc, pc'>> \in CrawlOrder
         /\ (pc = "get_channel" /\ pc' = "insert_channel") => channel' # None
         /\ (pc = "insert_channel" /\ pc' = "first_page") =>
               /\ channel_ids[idx] \in Keys(store'.channel)
               /\ nreq' = nreq
         /\ (pc = "first_page" /\ pc' = "get_messages") =>
               /\ channel_ids[idx] \in Keys(store.channel)
               /\ store' = store
               /\ nreq' = nreq + 1
         /\ (pc = "get_messages" /\ pc' = "insert_users") => messages' # <<>>
         /\ (pc = "insert_users" /\ pc' = "insert_messages") =>
               /\ messages' = messages
               /\ \A k \in DOMAIN messages :
                     UserRow(messages[k].author) \in Rows(store'.user)
               /\ store'.message = store.message
         /\ (pc = "insert_messages" /\ pc' = "next_page") =>
               /\ messages' = messages
               /\ \A k \in DOMAIN messages :
                     MessageRow(messages[k]) \in Rows(store'.message)
               /\ nreq' = nreq
         /\ (pc = "next_page" /\ pc' = "get_messages") =>
               /\ \A k \in DOMAIN messages :
                     /\ UserRow(messages[k].author) \in Rows(store.user)
                     /\ MessageRow(messages[k]) \in Rows(store.message)
               /\ store' = store
               /\ nreq' = nreq + 1
         /\ (pc = "get_messages" /\ pc' = "get_messages") =>
               /\ asleep' # asleep
               /\ nreq' = (IF asleep THEN nreq + 1 ELSE nreq)
               /\ store' = store
         /\ (pc = "get_messages" /\ pc' = "main") =>
               /\ messages' = <<>>
               /\ idx' = idx + 1
               /\ nreq' = nreq
               /\ store' = store
         /\ idx' # idx => (pc = "get_messages" /\ pc' = "main")]_vars

\* The crawl of a channel of a page and a half is done: three page fetches,
\* two pages persisted.
C15_Witness ==
    /\ pc = "main"
    /\ idx = 2
    /\ fresh
    /\ remote[1] = PageLimit + HalfPage
    /\ Len(cursors) = 3
    /\ Len(store.message) = PageLimit + HalfPage
    /\ nreq = 4

\* Requests sent and not answered yet: the sender blocks on its one request,
\* and a throttled call that sleeps has had its answer.
Outstanding == IF pc \in Fetching /\ ~asleep THEN {req_url} ELSE {}

\* C16: the request outstanding is for the channel the loop of main is at;
\* the channels before it in the argument list are done, their histories
\* stored down to the oldest message; the loop moves from one argument to the
\* next only; and a request is sent only when none is outstanding: the one
\* before it has been answered.
C16_Sequential ==
    /\ [](pc \notin Terminal =>
            /\ idx \in 1..(Len(channel_ids) + 1)
            /\ \A u \in Outstanding :
                  u # None /\ UrlChannel(u) = channel_ids[idx]
            /\ pc \notin Fetching => req_url = None
            /\ \A j \in 1..(idx - 1) :
                  /\ channel_ids[j] \in Keys(store.channel)
                  /\ RemoteMessages(channel_ids[j]) \subseteq Rows(store.message))
    /\ [][pc' \notin Terminal =>
            /\ idx' \in {idx, idx + 1, 1}
            /\ idx' = idx + 1 =>
                  (pc = "get_messages" /\ messages' = <<>> /\ pc' = "main")
            /\ nreq' # nreq =>
                  IF pc \in Terminal
                  THEN nreq' = 0
                  ELSE /\ nreq' = nreq + 1
                       /\ Outstanding = {}
                       /\ Outstanding' = {req_url'}]_vars

\* The first request for the second channel is outstanding; the first
\* channel's two pages are stored.
C16_Witness ==
    /\ pc = "get_channel"
    /\ idx = 2
    /\ fresh
    /\ channel_ids = <<1, 2>>
    /\ attempts = 1
    /\ remote[1] = PageLimit + HalfPage
    /\ Rows(store.message) = RemoteMessages(1)

\* The process is, or was when it stopped, in the page loop of the channel
\* at idx: it waits for a page or holds one.
InPageLoop ==
    /\ idx \in DOMAIN channel_ids
    /\ \/ messages # <<>>
       \/ req_url # None /\ req_url # ChannelUrl(channel_ids[idx])

FirstVisit == \A j \in 1..(idx - 1) : channel_ids[j] # channel_ids[idx]

\* The pages answered to the page fetches of the current channel: all of
\* those requested when a page is held, all but the last when the last
\* request is waiting.
PagesFetched == IF messages # <<>> THEN Len(cursors) ELSE Len(cursors) - 1

\* The rows of the first m pages of the current channel.
PageRows(m) ==
    UNION {{MessageRow(msg) :
              msg \in Range(ApiMessages(remote[channel_ids[idx]],
                                        channel_ids[idx], cursors[k],
                                        PageLimit))} : k \in 1..m}

StoredOf(c) == {r \in Rows(store.message) : r.channel_id = c}

\* C17: in a run that started on an empty store, wherever the process is or
\* has stopped in the page loop of a channel, the message rows of that
\* channel are those of all the pages fetched so far, or of all but the
\* last of them: whole pages, none after a missing one.
C17_BlastRadius ==
    (fresh /\ InPageLoop /\ FirstVisit) =>
        \E m \in {PagesFetched - 1, PagesFetched} \cap Nat :
            StoredOf(channel_ids[idx]) = PageRows(m)

\* Killed while the second page was held: the first page is stored, of the
\* second nothing.
C17_Witness ==
    /\ pc = "crashed"
    /\ fresh
    /\ InPageLoop
    /\ channel_ids = <<1, 2>>
    /\ idx = 2
    /\ remote[2] = 2 * PageLimit
    /\ Len(messages) = PageLimit
    /\ PagesFetched = 2
    /\ StoredOf(2) = PageRows(1)
    /\ Len(store.user) > Cardinality({store.message[k].author_id :
                                        k \in DOMAIN store.message})

Ended == {"done", "failed", "panicked"}

\* C18: with at most MaxThrottle 429 answers to a run, every run ends: it
\* returns Ok(()) after the last channel, or it aborts; and while the server
\* may still answer 429, a request waiting for its answer can be throttled,
\* and a throttled call that sleeps wakes and sends the request again,
\* however often it has been sent already.
C18_Termination ==
    /\ (pc \notin Terminal) ~> (pc \in Ended)
    /\ [](pc = "done" => idx = Len(channel_ids) + 1)
    /\ []((pc \in Fetching /\ ~asleep /\ throttled < MaxThrottle) =>
            ENABLED Throttled)
    /\ []((pc \in Fetching /\ asleep) =>
            ENABLED (Retry /\ attempts' = attempts + 1))

\* A request was throttled MaxThrottle times in a row and sent once more;
\* then the run ended.
C18_Witness ==
    /\ pc \in Ended
    /\ attempts = MaxThrottle + 1
    /\ throttled = MaxThrottle
    /\ nreq > MaxThrottle + 1

Paging == {"get_messages", "insert_users", "insert_messages"}

\* C19: in every run, on whatever store, the first page fetch of a channel
\* carries no cursor, and the k-th carries the cursor that the channel's
\* remote history alone determines: the id of its oldest message among the
\* (k - 1) * 100 newest. The request waiting is the one with the last of
\* these cursors.
C19_StartsFromNewest ==
    pc \in Paging =>
        /\ cursors # <<>>
        /\ cursors[1] = None
        /\ \A k \in DOMAIN cursors :
              cursors[k] = ExpectedCursor(channel_ids[idx],
                                          remote[channel_ids[idx]], k)
        /\ before = cursors[Len(cursors)]
        /\ pc = "get_messages" =>
              req_url = MessagesUrl(channel_ids[idx], cursors[Len(cursors)])

\* The store holds the channel's whole history from an earlier run; the first
\* page is requested without a cursor.
C19_Witness ==
    /\ pc = "get_messages"
    /\ ~fresh
    /\ channel_ids = <<1, 2>>
    /\ idx = 2
    /\ remote[2] = 2 * PageLimit
    /\ StoredOf(2) = RemoteMessages(2)
    /\ cursors = <<None>>
    /\ req_url = <<"channels", 2, "messages?limit=", PageLimit>>

\* C20: no step taken while a request waits for its answer changes the
\* store, so a fetch that fails leaves the store as it was when the request
\* was sent; after a failed metadata fetch the channel has no row unless it
\* had one before; the step that sends the request for the next page finds
\* every page answered so far in the store and writes nothing; and while a
\* page request waits, the pages answered to the earlier page requests of
\* that crawl are stored.
C20_FailedFetchWritesNothing ==
    /\ [][(pc \in Fetching) => store' = store]_vars
    /\ [][(pc = "next_page" /\ nreq' = nreq + 1) =>
            /\ PageRows(Len(cursors)) \subseteq Rows(store.message)
            /\ store' = store]_vars
    /\ []((/\ pc \in Aborted
           /\ req_url = ChannelUrl(channel_ids[idx])
           /\ fresh
           /\ FirstVisit) => channel_ids[idx] \notin Keys(store.channel))
    /\ [](pc = "get_messages" =>
            PageRows(Len(cursors) - 1) \subseteq Rows(store.message))

\* The request for the third page failed: the two pages before it are stored.
C20_Witness ==
    /\ pc = "failed"
    /\ Unwrap(err).kind \in {"transport", "api", "decode"}
    /\ fresh
    /\ channel_ids = <<1, 2>>
    /\ idx = 2
    /\ remote[2] = 2 * PageLimit
    /\ Len(cursors) = 3
    /\ req_url = MessagesUrl(2, Some(2 * IdBase + 1))
    /\ StoredOf(2) = PageRows(2)
    /\ Len(store.message) = remote[1] + 2 * PageLimit
====
